---- MODULE Spec2Model ----
(***************************************************************************)
(* rundogd: a filesystem watcher that restarts one child process after a   *)
(* quiet period.  The model follows src/rundogd.py statement by statement: *)
(* Runner (poll / terminate / restart), ChangeHandler.on_any_event with    *)
(* its threading.Timer, and the driver loop and shutdown of main().        *)
(*                                                                         *)
(* Threads: thread 0 is the main thread, thread t >= 1 is the Timer thread *)
(* created by the t-th call of on_any_event.  Runner, being shared and     *)
(* unlocked, is read and written one statement at a time.  The watchdog    *)
(* observer delivers events from one thread, so on_any_event is never      *)
(* concurrent with itself and is one step.  Time is discrete; a Timer      *)
(* wakes exactly at its deadline (Tick cannot pass a pending deadline).    *)
(***************************************************************************)
EXTENDS Integers, Sequences, FiniteSets, TLC

\* ---------------------------------------------------------------- bounds
MaxEvents == 2          \* events the watcher emits (= Timer threads)
MaxTime   == 5          \* last clock value

\* ------------------------------------------------------- program values
\* --wait, in ticks
Wait == 2
\* Python's None
None == 0 - 1
\* lowest descriptor os.open can return (0, 1, 2 are the standard streams)
FirstFd == 3
\* returncode of a child killed by SIGTERM, and of one that exits by itself
SIGTERMED == 0 - 15
EXIT_OK == 0

Main    == 0
Timers  == 1..MaxEvents
Threads == 0..MaxEvents
Procs   == 1..(MaxEvents + 1)
Fds     == FirstFd..(FirstFd + 2 * (MaxEvents + 1))

\* Filesystem events and glob patterns.  A path is a base name and an
\* extension; a pattern is "*", "*.<ext>" or "<base>.*".
Paths    == { <<"foo", "py">>, <<"foo", "txt">>, <<"tmp", "py">> }
Events   == [src_path : Paths, is_directory : {FALSE}]
              \cup [src_path : {<<"foo", "py">>}, is_directory : {TRUE}]
Patterns == { "*.py", "tmp.*" }

Match(pattern, path) ==
    CASE pattern = "*"     -> TRUE
      [] pattern = "*.py"  -> path[2] = "py"
      [] pattern = "*.txt" -> path[2] = "txt"
      [] pattern = "tmp.*" -> path[1] = "tmp"
      [] OTHER             -> FALSE

VARIABLES
    args,        \* parsed command line: persist, stdout, stderr, only, exclude, exclude_dir,
                 \* path (the -p values), command_dir (dirname of the command), and
                 \* lazy_map (the interpreter's map() returns an iterator: Python 3)
    process,     \* Runner.process: None or the child (Popen object)
    outfp,       \* Runner.outfp: None or a descriptor number
    errfp,       \* Runner.errfp
    child,       \* OS state of each child: "unborn", "running", "zombie", "reaped"
    status,      \* exit status the OS holds for each child (None while running)
    openFds,     \* descriptors open in this process (beyond 0, 1, 2)
    timer,       \* ChangeHandler.timer: None or the latest Timer thread
    pc,          \* position of each thread
    startedAt,   \* clock value at which each Timer was started (None while not created)
    firedAt,     \* clock value at which each Timer's callback started (None if not)
    phase,       \* driver: "STARTING", "RUNNING", "SHUTTING_DOWN"
    observer,    \* "unstarted", "started", "stopped", "joined"
    now,         \* the clock
    nEvents,     \* events emitted by the watcher so far
    exitStatus,  \* exit code of the program, None while it runs
    interrupted, \* whether KeyboardInterrupt was raised in the driver loop
    exitedAtTick \* during a driver tick: the tracked child, if it had exited when the tick began

vars == << args, process, outfp, errfp, child, status, openFds, timer, pc,
           startedAt, firedAt, phase, observer, now, nEvents,
           exitStatus, interrupted, exitedAtTick >>

\* ------------------------------------------------------------- helpers
Goto(th, label) == pc' = [pc EXCEPT ![th] = label]

\* Positions inside Runner.terminate and Runner.restart.
TerminatePcs == { "T_check", "T_term", "T_wait", "T_clear" }
RestartPcs   == { "R_closeOut", "R_closeErr", "R_openOut", "R_openErr", "R_popen" }
RunnerPcs    == TerminatePcs \cup RestartPcs
PollPcs      == { "P_check", "P_poll", "P_ret" }

\* is_alive() that reports a waiting Timer as not alive.
is_alive_only_running(t) == pc[t] \in RunnerPcs

\* Thread.is_alive(): started and run() not yet returned.  A Timer is alive
\* while it waits and while its callback runs.
is_alive(t) == pc[t] = "pending" \/ pc[t] \in RunnerPcs

\* Popen.returncode: set when the child has been reaped through the object.
returncode(p) == IF child[p] = "reaped" THEN status[p] ELSE None

\* os.open returns the lowest free descriptor.
LowestFreeFd == CHOOSE f \in Fds : f \notin openFds /\ \A g \in Fds : g < f => g \in openFds

\* The next child the OS creates.
NextProc == CHOOSE p \in Procs : child[p] = "unborn" /\ \A q \in Procs : q < p => child[q] # "unborn"

Running == exitStatus = None

\* A fixed window: every Timer's wait counted from the first event.
deadline_from_first(t) == startedAt[1] + Wait

\* Timer(self.wait, restart): run() waits self.wait from start().
deadline(t) == startedAt[t] + Wait

\* The Timer threads created so far, and the next one.
Created   == { t \in Timers : startedAt[t] # None }
NextTimer == Cardinality(Created) + 1

\* ------------------------------------------------- main(): filter wiring
\* main() passes --only, --exclude and --exclude-dir to the handler.
\* The handler built without patterns=only.
HandlerPatterns_not_passed == {}

HandlerPatterns         == args.only
HandlerIgnorePatterns   == args.exclude
HandlerIgnoreDirectories == args.exclude_dir

\* PatternMatchingEventHandler.dispatch: the library's filter in front of
\* on_any_event (patterns None means every path, ignore_patterns None none).
Dispatches(e) ==
    /\ ~(HandlerIgnoreDirectories /\ e.is_directory)
    /\ (HandlerPatterns = {} \/ \E g \in HandlerPatterns : Match(g, e.src_path))
    /\ ~(\E g \in HandlerIgnorePatterns : Match(g, e.src_path))

\* ----------------------------------------------------------------- Init
\* Command lines without a filter: each of --persist, --stdout, --stderr
\* given and not given, alone and together.
RunnerArgs ==
    { [ persist |-> p, stdout |-> o, stderr |-> e,
        only |-> {}, exclude |-> {}, exclude_dir |-> FALSE,
        path |-> << >>, command_dir |-> "", lazy_map |-> FALSE ] :
      <<p, o, e>> \in { <<FALSE, TRUE, TRUE>>, <<FALSE, FALSE, FALSE>>,
                        <<TRUE, TRUE, FALSE>>, <<TRUE, FALSE, TRUE>> } }

\* Command lines with a filter: --only, --exclude and --exclude-dir each
\* alone, and all three together.
FilterArgs ==
    { [ persist |-> FALSE, stdout |-> FALSE, stderr |-> FALSE,
        only |-> o, exclude |-> x, exclude_dir |-> d,
        path |-> << >>, command_dir |-> "", lazy_map |-> FALSE ] :
      <<o, x, d>> \in { << {"*.py"}, {}, FALSE >>, << {}, {"tmp.*"}, FALSE >>,
                        << {}, {}, TRUE >>, << {"*.py"}, {"tmp.*"}, TRUE >> } }

\* Command lines that differ in the watch paths: -p values that are
\* directories, empty, or not directories, a command in a directory or not,
\* under an interpreter whose map() returns a list and one whose map()
\* returns an iterator.
StartupArgs ==
    { [ persist |-> FALSE, stdout |-> FALSE, stderr |-> FALSE,
        only |-> {}, exclude |-> {}, exclude_dir |-> FALSE,
        path |-> p, command_dir |-> c, lazy_map |-> l ] :
      <<p, c, l>> \in { << << >>, "", FALSE >>,
                        << << >>, "bin/missing", TRUE >>,
                        << <<"src", "">>, "", FALSE >>,
                        << <<"src", "notes.txt">>, "", FALSE >>,
                        << <<"src">>, "", TRUE >>,
                        << <<"src", "">>, "", TRUE >>,
                        << <<"notes.txt">>, "", TRUE >> } }

InitWith(a) ==
    /\ args = a
    /\ process = None /\ outfp = None /\ errfp = None
    /\ child = [p \in Procs |-> "unborn"]
    /\ status = [p \in Procs |-> None]
    /\ openFds = {}
    /\ timer = None
    /\ pc = [th \in Threads |-> IF th = Main THEN "main" ELSE "unborn"]
    /\ startedAt = [t \in Timers |-> None]
    /\ firedAt = [t \in Timers |-> None]
    /\ phase = "STARTING"
    /\ observer = "unstarted"
    /\ now = 0
    /\ nEvents = 0
    /\ exitStatus = None
    /\ interrupted = FALSE
    /\ exitedAtTick = None

Init == \E a \in RunnerArgs : InitWith(a)

InitFilter == \E a \in FilterArgs : InitWith(a)

InitStartup == \E a \in StartupArgs : InitWith(a)

\* ------------------------------------------------- main(): watch paths
\* os.path.isdir on the file system the program runs in.
Directories == { ".", "src" }
isdir(path) == path \in Directories

\* paths as first assigned: the -p values mapped out of their one-element
\* lists, or the directory of the command.
PathArgs == IF Len(args.path) > 0 THEN args.path ELSE << args.command_dir >>

\* map() gives a list in Python 2 and an iterator in Python 3; the list
\* literal of the else branch is a list in both.
PathsIsIterator == args.lazy_map /\ Len(args.path) > 0

\* The enumerate loop finds an empty path and executes paths[i] = '.'
HasEmptyPath == \E i \in 1..Len(PathArgs) : PathArgs[i] = ""

\* paths = set(paths), after the enumerate loop: empty paths replaced by
\* '.'; an iterator has been consumed by the loop and gives the empty set.
paths ==
    IF PathsIsIterator
      THEN {}
      ELSE { IF PathArgs[i] = "" THEN "." ELSE PathArgs[i] : i \in 1..Len(PathArgs) }

\* The paths given to observer.schedule, once main() has got there.
Scheduled == IF observer = "unstarted" THEN {} ELSE paths

\* main() from "Get `path` arguments" to "Ensure all paths are directories":
\* item assignment on an iterator raises TypeError (not caught); a path that
\* is not a directory ends in sys.exit(1); otherwise main() goes on to
\* Runner(...), whose __init__ calls restart().
MainPaths ==
    /\ Running /\ pc[Main] = "main"
    /\ Goto(Main, IF PathsIsIterator /\ HasEmptyPath THEN "TypeError"
                  ELSE IF \E path \in paths : ~isdir(path) THEN "SystemExit"
                  ELSE "T_check")
    /\ UNCHANGED << args, process, outfp, errfp, child, status, openFds, timer,
                    startedAt, firedAt, phase, observer, now, nEvents,
                    exitStatus, interrupted, exitedAtTick >>

\* ------------------------------------------------------ Runner.terminate
\* Where terminate() returns to: restart() continues with its closes; the
\* shutdown call of main() continues with observer.stop().
AfterTerminate(th) ==
    IF th = Main /\ phase = "SHUTTING_DOWN" THEN "stop" ELSE "R_closeOut"

\* terminate() without its test "if self.process:".
T_check_no_test(th) ==
    /\ Running /\ pc[th] = "T_check"
    /\ Goto(th, "T_term")
    /\ UNCHANGED << args, process, outfp, errfp, child, status, openFds, timer,
                    startedAt, firedAt, phase, observer, now, nEvents,
                    exitStatus, interrupted, exitedAtTick >>

\* if self.process:
T_check(th) ==
    /\ Running /\ pc[th] = "T_check"
    /\ Goto(th, IF process # None THEN "T_term" ELSE AfterTerminate(th))
    /\ UNCHANGED << args, process, outfp, errfp, child, status, openFds, timer,
                    startedAt, firedAt, phase, observer, now, nEvents,
                    exitStatus, interrupted, exitedAtTick >>

\* self.process.terminate(): SIGTERM.  self.process is read again: None
\* gives AttributeError (not caught); a child already reaped gives OSError
\* (caught, wait() is skipped).
T_term(th) ==
    /\ Running /\ pc[th] = "T_term"
    /\ IF process = None
         THEN Goto(th, "AttributeError") /\ UNCHANGED << child, status >>
         ELSE CASE child[process] = "reaped" ->
                     Goto(th, "T_clear") /\ UNCHANGED << child, status >>
                [] child[process] = "running" ->
                     /\ child' = [child EXCEPT ![process] = "zombie"]
                     /\ status' = [status EXCEPT ![process] = SIGTERMED]
                     /\ Goto(th, "T_wait")
                [] OTHER ->
                     Goto(th, "T_wait") /\ UNCHANGED << child, status >>
    /\ UNCHANGED << args, process, outfp, errfp, openFds, timer,
                    startedAt, firedAt, phase, observer, now, nEvents,
                    exitStatus, interrupted, exitedAtTick >>

\* self.process.wait(): blocks until the child it reads has exited, reaps it.
T_wait(th) ==
    /\ Running /\ pc[th] = "T_wait"
    /\ IF process = None
         THEN Goto(th, "AttributeError") /\ UNCHANGED child
         ELSE /\ child[process] # "running"
              /\ child' = [child EXCEPT ![process] = "reaped"]
              /\ Goto(th, "T_clear")
    /\ UNCHANGED << args, process, outfp, errfp, status, openFds, timer,
                    startedAt, firedAt, phase, observer, now, nEvents,
                    exitStatus, interrupted, exitedAtTick >>

\* terminate() returning without "self.process = None".
T_clear_keeps_process(th) ==
    /\ Running /\ pc[th] = "T_clear"
    /\ Goto(th, AfterTerminate(th))
    /\ UNCHANGED << args, process, outfp, errfp, child, status, openFds, timer,
                    startedAt, firedAt, phase, observer, now, nEvents,
                    exitStatus, interrupted, exitedAtTick >>

\* self.process = None
T_clear(th) ==
    /\ Running /\ pc[th] = "T_clear"
    /\ process' = None
    /\ Goto(th, AfterTerminate(th))
    /\ UNCHANGED << args, outfp, errfp, child, status, openFds, timer,
                    startedAt, firedAt, phase, observer, now, nEvents,
                    exitStatus, interrupted, exitedAtTick >>

\* -------------------------------------------------------- Runner.restart
\* if self.outfp: os.close(self.outfp).  Closing a descriptor that is not
\* open raises OSError (EBADF) outside the try block.
R_closeOut(th) ==
    /\ Running /\ pc[th] = "R_closeOut"
    /\ IF outfp = None
         THEN Goto(th, "R_closeErr") /\ UNCHANGED openFds
         ELSE IF outfp \in openFds
                THEN openFds' = openFds \ {outfp} /\ Goto(th, "R_closeErr")
                ELSE Goto(th, "OSError") /\ UNCHANGED openFds
    /\ UNCHANGED << args, process, outfp, errfp, child, status, timer,
                    startedAt, firedAt, phase, observer, now, nEvents,
                    exitStatus, interrupted, exitedAtTick >>

\* if self.errfp: os.close(self.errfp)
R_closeErr(th) ==
    /\ Running /\ pc[th] = "R_closeErr"
    /\ IF errfp = None
         THEN Goto(th, "R_openOut") /\ UNCHANGED openFds
         ELSE IF errfp \in openFds
                THEN openFds' = openFds \ {errfp} /\ Goto(th, "R_openOut")
                ELSE Goto(th, "OSError") /\ UNCHANGED openFds
    /\ UNCHANGED << args, process, outfp, errfp, child, status, timer,
                    startedAt, firedAt, phase, observer, now, nEvents,
                    exitStatus, interrupted, exitedAtTick >>

\* if self.stdout: self.outfp = os.open(...); OSError -> sys.exit(1)
R_openOut(th) ==
    /\ Running /\ pc[th] = "R_openOut"
    /\ \/ /\ args.stdout
          /\ outfp' = LowestFreeFd
          /\ openFds' = openFds \cup {LowestFreeFd}
          /\ Goto(th, "R_openErr")
       \/ /\ args.stdout
          /\ Goto(th, "SystemExit")
          /\ UNCHANGED << outfp, openFds >>
       \/ /\ ~args.stdout
          /\ Goto(th, "R_openErr")
          /\ UNCHANGED << outfp, openFds >>
    /\ UNCHANGED << args, process, errfp, child, status, timer,
                    startedAt, firedAt, phase, observer, now, nEvents,
                    exitStatus, interrupted, exitedAtTick >>

\* if self.stderr: self.errfp = os.open(...); OSError -> sys.exit(1)
R_openErr(th) ==
    /\ Running /\ pc[th] = "R_openErr"
    /\ \/ /\ args.stderr
          /\ errfp' = LowestFreeFd
          /\ openFds' = openFds \cup {LowestFreeFd}
          /\ Goto(th, "R_popen")
       \/ /\ args.stderr
          /\ Goto(th, "SystemExit")
          /\ UNCHANGED << errfp, openFds >>
       \/ /\ ~args.stderr
          /\ Goto(th, "R_popen")
          /\ UNCHANGED << errfp, openFds >>
    /\ UNCHANGED << args, process, outfp, child, status, timer,
                    startedAt, firedAt, phase, observer, now, nEvents,
                    exitStatus, interrupted, exitedAtTick >>

\* Where restart() returns to: Runner.__init__ in main() goes on to start
\* the observer and enter the loop; a Timer's run() ends.
AfterRestart(th) == IF th = Main THEN "sleep" ELSE "done"

\* Popen cannot hand the child a descriptor that is not open.
StreamsUsable == (outfp = None \/ outfp \in openFds) /\ (errfp = None \/ errfp \in openFds)

\* self.process = subprocess.Popen(...); OSError -> sys.exit(1).
\* In main() the next statements build the handler and start the observer.
R_popen(th) ==
    /\ Running /\ pc[th] = "R_popen"
    /\ \/ /\ StreamsUsable
          /\ process' = NextProc
          /\ child' = [child EXCEPT ![NextProc] = "running"]
          /\ Goto(th, AfterRestart(th))
          /\ IF th = Main
               THEN phase' = "RUNNING" /\ observer' = "started"
               ELSE UNCHANGED << phase, observer >>
       \/ /\ StreamsUsable
          /\ Goto(th, "SystemExit")
          /\ UNCHANGED << process, child, phase, observer >>
       \/ /\ ~StreamsUsable
          /\ Goto(th, "SystemExit")
          /\ UNCHANGED << process, child, phase, observer >>
    /\ UNCHANGED << args, outfp, errfp, status, openFds, timer,
                    startedAt, firedAt, now, nEvents,
                    exitStatus, interrupted, exitedAtTick >>

\* ----------------------------------------- ChangeHandler and its Timers
\* on_any_event without the cancel: the earlier Timer is left pending.
on_any_event_no_cancel ==
    LET t == NextTimer IN
    /\ pc' = [pc EXCEPT ![t] = "pending"]
    /\ startedAt' = [startedAt EXCEPT ![t] = now]
    /\ timer' = t

\* on_any_event without self.timer.start(): the new Timer never runs.
on_any_event_no_start ==
    LET t == NextTimer IN
    /\ pc' = [th \in Threads |->
                IF timer # None /\ th = timer /\ pc[th] = "pending"
                  THEN "cancelled" ELSE pc[th]]
    /\ startedAt' = [startedAt EXCEPT ![t] = now]
    /\ timer' = t

\* if self.timer and self.timer.is_alive():   (then self.timer.cancel())
CallsCancel == timer # None /\ is_alive(timer)

\* A cancel() that also stops a Timer whose callback runs.
cancel_even_running(th) == "cancelled"

\* Timer.cancel() sets the Timer's finished flag: a waiting Timer ends
\* without calling back; one whose callback has started is not affected.
cancel(th) == IF pc[th] = "pending" THEN "cancelled" ELSE pc[th]

\* on_any_event: cancel the current Timer if it is alive, then create and
\* start a new one.
on_any_event ==
    LET t == NextTimer IN
    /\ pc' = [th \in Threads |->
                IF th = t THEN "pending"
                ELSE IF CallsCancel /\ th = timer THEN cancel(th)
                ELSE pc[th]]
    /\ startedAt' = [startedAt EXCEPT ![t] = now]
    /\ timer' = t

\* The watcher emits an event under a scheduled path; dispatch() filters it
\* before on_any_event.
WatcherEvent(e) ==
    /\ Running /\ observer = "started"
    /\ Scheduled # {}
    /\ nEvents < MaxEvents
    /\ now + Wait <= MaxTime
    /\ nEvents' = nEvents + 1
    /\ IF Dispatches(e)
         THEN on_any_event
         ELSE UNCHANGED << pc, startedAt, timer >>
    /\ UNCHANGED << args, process, outfp, errfp, child, status, openFds,
                    firedAt, phase, now, observer, exitStatus,
                    interrupted, exitedAtTick >>

\* Timer.run(): the wait is over and the Timer was not cancelled, so the
\* callback restart() starts: runner.restart(), whose first statement is
\* self.terminate().
TimerFire(t) ==
    /\ Running /\ pc[t] = "pending"
    /\ now = deadline(t)
    /\ firedAt' = [firedAt EXCEPT ![t] = now]
    /\ Goto(t, "T_check")
    /\ UNCHANGED << args, process, outfp, errfp, child, status, openFds, timer,
                    startedAt, phase, observer, now, nEvents,
                    exitStatus, interrupted, exitedAtTick >>

\* The clock advances; a Timer whose deadline is now fires first.  Only
\* pending Timers and the watcher's later events read the clock.
Tick ==
    /\ Running /\ now < MaxTime
    /\ \A t \in Timers : pc[t] = "pending" => deadline(t) > now
    /\ \/ \E t \in Timers : pc[t] = "pending"
       \/ observer = "started" /\ Scheduled # {} /\ nEvents < MaxEvents
    /\ now' = now + 1
    /\ UNCHANGED << args, process, outfp, errfp, child, status, openFds, timer,
                    pc, startedAt, firedAt, phase, observer, nEvents,
                    exitStatus, interrupted, exitedAtTick >>

\* The child exits by itself with status 0.
ChildExit(p) ==
    /\ Running /\ child[p] = "running"
    /\ child' = [child EXCEPT ![p] = "zombie"]
    /\ status' = [status EXCEPT ![p] = EXIT_OK]
    /\ UNCHANGED << args, process, outfp, errfp, openFds, timer, pc,
                    startedAt, firedAt, phase, observer, now, nEvents,
                    exitStatus, interrupted, exitedAtTick >>

\* ---------------------------------------------------- main(): the driver
\* The loop condition without "not args.persist".
PollsChild_ignoring_persist == TRUE

\* First conjunct of the loop condition: "not args.persist".
PollsChild == ~args.persist

\* The loop condition testing "runner.poll()" for truth: 0 does not count.
LeavesLoop_truthy(result) == result # None /\ result # 0

\* Second conjunct of the loop condition: "runner.poll() is not None".
LeavesLoop(result) == result # None

\* time.sleep(1) is over; with --persist the condition stops at its first
\* conjunct and poll() is not called.
DriverTick ==
    /\ Running /\ pc[Main] = "sleep"
    /\ PollsChild
    /\ Goto(Main, "P_check")
    /\ exitedAtTick' = IF process # None /\ child[process] # "running"
                         THEN process ELSE None
    /\ UNCHANGED << args, process, outfp, errfp, child, status, openFds, timer,
                    startedAt, firedAt, phase, observer, now, nEvents,
                    exitStatus, interrupted >>

\* Runner.poll: if self.process:  (otherwise return None, and the loop goes on)
P_check ==
    /\ Running /\ pc[Main] = "P_check"
    /\ Goto(Main, IF process # None THEN "P_poll" ELSE "sleep")
    /\ exitedAtTick' = IF process # None THEN exitedAtTick ELSE None
    /\ UNCHANGED << args, process, outfp, errfp, child, status, openFds, timer,
                    startedAt, firedAt, phase, observer, now, nEvents,
                    exitStatus, interrupted >>

\* Runner.poll whose "except OSError" only passes: the process stays tracked.
P_poll_keeps_process ==
    /\ Running /\ pc[Main] = "P_poll"
    /\ \/ /\ process = None
          /\ Goto(Main, "AttributeError")
          /\ exitedAtTick' = None
          /\ UNCHANGED << process, child >>
       \/ /\ process # None
          /\ child' = [child EXCEPT ![process] =
                          IF @ = "zombie" THEN "reaped" ELSE @]
          /\ Goto(Main, "P_ret")
          /\ UNCHANGED << process, exitedAtTick >>
       \/ /\ process # None /\ child[process] # "running"
          /\ Goto(Main, "sleep")
          /\ exitedAtTick' = None
          /\ UNCHANGED << process, child >>
    /\ UNCHANGED << args, outfp, errfp, status, openFds, timer,
                    startedAt, firedAt, phase, observer, now, nEvents,
                    exitStatus, interrupted >>

\* Runner.poll: self.process.poll() reaps the child if it has exited;
\* except OSError (probing a child that is gone): self.process = None, and
\* poll returns None.  self.process is read again: None gives AttributeError.
P_poll ==
    /\ Running /\ pc[Main] = "P_poll"
    /\ \/ /\ process = None
          /\ Goto(Main, "AttributeError")
          /\ exitedAtTick' = None
          /\ UNCHANGED << process, child >>
       \/ /\ process # None
          /\ child' = [child EXCEPT ![process] =
                          IF @ = "zombie" THEN "reaped" ELSE @]
          /\ Goto(Main, "P_ret")
          /\ UNCHANGED << process, exitedAtTick >>
       \/ /\ process # None /\ child[process] # "running"
          /\ process' = None
          /\ Goto(Main, "sleep")
          /\ exitedAtTick' = None
          /\ UNCHANGED child
    /\ UNCHANGED << args, outfp, errfp, status, openFds, timer,
                    startedAt, firedAt, phase, observer, now, nEvents,
                    exitStatus, interrupted >>

\* Runner.poll: return self.process.returncode, and the second conjunct of
\* "if (not args.persist) and (runner.poll() is not None): break".
P_ret ==
    /\ Running /\ pc[Main] = "P_ret"
    /\ IF process = None
         THEN Goto(Main, "AttributeError") /\ UNCHANGED phase
         ELSE IF LeavesLoop(returncode(process))
                THEN Goto(Main, "T_check") /\ phase' = "SHUTTING_DOWN"
                ELSE Goto(Main, "sleep") /\ UNCHANGED phase
    /\ exitedAtTick' = None
    /\ UNCHANGED << args, process, outfp, errfp, child, status, openFds, timer,
                    startedAt, firedAt, observer, now, nEvents,
                    exitStatus, interrupted >>

\* KeyboardInterrupt inside the try block: the loop is left.
Interrupt ==
    /\ Running /\ pc[Main] \in {"sleep"} \cup PollPcs
    /\ interrupted' = TRUE
    /\ exitedAtTick' = None
    /\ phase' = "SHUTTING_DOWN"
    /\ Goto(Main, "T_check")
    /\ UNCHANGED << args, process, outfp, errfp, child, status, openFds, timer,
                    startedAt, firedAt, observer, now, nEvents,
                    exitStatus >>

\* observer.stop(), after runner.terminate() has returned
ObserverStop ==
    /\ Running /\ pc[Main] = "stop"
    /\ observer' = "stopped"
    /\ Goto(Main, "join")
    /\ UNCHANGED << args, process, outfp, errfp, child, status, openFds, timer,
                    startedAt, firedAt, phase, now, nEvents,
                    exitStatus, interrupted, exitedAtTick >>

\* observer.join(); main() returns
ObserverJoin ==
    /\ Running /\ pc[Main] = "join"
    /\ observer' = "joined"
    /\ Goto(Main, "returned")
    /\ UNCHANGED << args, process, outfp, errfp, child, status, openFds, timer,
                    startedAt, firedAt, phase, now, nEvents,
                    exitStatus, interrupted, exitedAtTick >>

\* The interpreter exits when the main thread has ended and every Timer
\* thread (non-daemon) has ended: 0 after main() returned, 1 after
\* SystemExit(1) or an uncaught exception in the main thread.
ProgramExit ==
    /\ Running /\ pc[Main] \in {"returned", "SystemExit", "AttributeError", "TypeError"}
    /\ \A t \in Timers : ~is_alive(t)
    /\ exitStatus' = IF pc[Main] = "returned" THEN 0 ELSE 1
    /\ UNCHANGED << args, process, outfp, errfp, child, status, openFds, timer,
                    pc, startedAt, firedAt, phase, observer, now, nEvents,
                    interrupted, exitedAtTick >>

\* ----------------------------------------------------------------- Next
Next ==
    \/ MainPaths
    \/ \E th \in Threads : T_check(th)
    \/ \E th \in Threads : T_term(th)
    \/ \E th \in Threads : T_wait(th)
    \/ \E th \in Threads : T_clear(th)
    \/ \E th \in Threads : R_closeOut(th)
    \/ \E th \in Threads : R_closeErr(th)
    \/ \E th \in Threads : R_openOut(th)
    \/ \E th \in Threads : R_openErr(th)
    \/ \E th \in Threads : R_popen(th)
    \/ \E e \in Events : WatcherEvent(e)
    \/ \E t \in Timers : TimerFire(t)
    \/ Tick
    \/ \E p \in Procs : ChildExit(p)
    \/ DriverTick
    \/ P_check
    \/ P_poll
    \/ P_ret
    \/ Interrupt
    \/ ObserverStop
    \/ ObserverJoin
    \/ ProgramExit

Spec == Init /\ [][Next]_vars

SpecFilter == InitFilter /\ [][Next]_vars

SpecStartup == InitStartup /\ [][Next]_vars

\* =============================================================== claims
Alive      == { p \in Procs : child[p] = "running" }
InRunner   == { th \in Threads : pc[th] \in RunnerPcs }
Fired      == { t \in Timers : firedAt[t] # None }
Configured == (IF args.stdout THEN 1 ELSE 0) + (IF args.stderr THEN 1 ELSE 0)

\* C1: in every reachable state at most one child started by the Runner is
\* alive, and a child that is alive is the tracked process.
C1_AtMostOneChildAlive ==
    /\ Cardinality(Alive) <= 1
    /\ \A p \in Alive : process = p

\* C4: at most one thread is inside Runner.restart() / Runner.terminate()
\* at a time.
C4_RestartsSerialized == Cardinality(InRunner) <= 1

\* C5: when a restart() call returns and no other call is in flight, exactly
\* one child is alive and the open descriptors are exactly the ones the
\* Runner holds, one per configured stdout/stderr path.
C5_OneChildNoLeakOnReturn ==
    [][ \A th \in Threads :
          ( /\ pc[th] = "R_popen" /\ pc'[th] = AfterRestart(th)
            /\ InRunner' = {} )
          => /\ Cardinality(Alive') = 1
             /\ openFds' = {outfp', errfp'} \ {None}
             /\ Cardinality(openFds') = Configured ]_vars

\* C6: restart() never closes a descriptor that is not open: no os.close
\* in restart() raises OSError (EBADF).
C6_NeverDoubleClose == \A th \in Threads : pc[th] # "OSError"

\* C8: whenever a launch fails (sys.exit(1) in restart(), in whichever
\* thread) the program ends with exit code 1, never with another code.
C8_LaunchFailureExitsWith1 ==
    (exitStatus # None /\ \E th \in Threads : pc[th] = "SystemExit")
        => exitStatus = 1

\* The qualifying events so far are the Timers created so far: Timer t was
\* started by the t-th qualifying event, at startedAt[t].
LastTimer == Cardinality(Created)
GapsBelowWait   == \A t \in Created : t > 1 => startedAt[t] - startedAt[t - 1] < Wait
GapsAtLeastWait == \A t \in Created : t > 1 => startedAt[t] - startedAt[t - 1] >= Wait
GapsAboveWait   == \A t \in Created : t > 1 => startedAt[t] - startedAt[t - 1] > Wait
NonePending     == \A t \in Timers : pc[t] # "pending"

\* C2: when every gap between qualifying events is smaller than wait, at
\* most one restart has fired, it is the last event's, it fired exactly wait
\* after that event, and once wait has passed since the last event it has
\* fired.
C2_BurstFiresOnce ==
    (Created # {} /\ GapsBelowWait) =>
        /\ \A t \in Fired : t = LastTimer /\ firedAt[t] = startedAt[t] + Wait
        /\ now > startedAt[LastTimer] + Wait => Fired = {LastTimer}
        /\ NonePending => Fired = {LastTimer}

C2_Witness ==
    /\ Cardinality(Created) >= 2 /\ GapsBelowWait
    /\ startedAt[2] > startedAt[1]
    /\ Fired = {LastTimer}
    /\ pc[1] = "cancelled"

\* C3 as stated: when every gap between qualifying events is at least wait,
\* every event's restart fires: once no Timer is pending, the restarts
\* fired are as many as the events.
C3_OnePerEventGapsAtLeastWait ==
    (GapsAtLeastWait /\ NonePending) => Cardinality(Fired) = Cardinality(Created)

\* C3 amended: the same when every gap is greater than wait.
C3_OnePerEventGapsAboveWait ==
    (GapsAboveWait /\ NonePending) => Cardinality(Fired) = Cardinality(Created)

C3_Witness ==
    /\ Cardinality(Created) >= 2 /\ GapsAboveWait
    /\ Fired = Created

\* An event that does not survive the filter of the command line.
FilteredOut(e) ==
    \/ args.only # {} /\ \A g \in args.only : ~Match(g, e.src_path)
    \/ \E g \in args.exclude : Match(g, e.src_path)
    \/ args.exclude_dir /\ e.is_directory

\* C7: a step in which the watcher emits an event that does not survive the
\* filter cancels no Timer, starts no Timer and starts no restart.
C7_FilteredEventIsIgnored ==
    [][ \A e \in Events :
          (FilteredOut(e) /\ WatcherEvent(e))
              => UNCHANGED << timer, pc, startedAt, firedAt >> ]_vars

C7_Witness ==
    /\ args.only # {} /\ args.exclude # {} /\ args.exclude_dir
    /\ nEvents = 2 /\ Cardinality(Created) = 1
    /\ Fired = {1}

\* The driver takes a step of poll() in a tick that began with the tracked
\* child exited, and that child is still the tracked process.
PollStepOnDeadChild ==
    /\ ~args.persist /\ ~interrupted'
    /\ pc[Main] \in PollPcs /\ pc'[Main] # pc[Main]
    /\ process # None /\ exitedAtTick = process

\* The step goes on with poll(), or leaves the loop to shut down.
PollGoesOnOrLeaves ==
    \/ pc'[Main] \in {"P_poll", "P_ret"}
    \/ phase' = "SHUTTING_DOWN" /\ pc'[Main] = "T_check"

\* C9 as stated: with persist off, a tick that finds the tracked child
\* exited (and not replaced) ends with the driver leaving the loop.
C9_DeadChildEndsLoop ==
    [][ PollStepOnDeadChild => PollGoesOnOrLeaves ]_vars

\* C9 amended: the same, unless probing the child raises OSError (poll()
\* then drops the process and returns None).
C9_DeadChildEndsLoopUnlessOSError ==
    [][ (PollStepOnDeadChild /\ process' = process) => PollGoesOnOrLeaves ]_vars

C9_Witness ==
    /\ ~args.persist /\ ~interrupted
    /\ phase = "SHUTTING_DOWN"
    /\ process # None /\ returncode(process) = EXIT_OK

\* C10: with persist on the driver leaves RUNNING only by an interrupt:
\* until then it sleeps in the loop, whatever the children do.
C10_PersistKeepsRunning ==
    (args.persist /\ phase # "STARTING" /\ ~interrupted)
        => phase = "RUNNING" /\ pc[Main] = "sleep"

C10_Witness ==
    /\ args.persist /\ phase = "RUNNING" /\ ~interrupted
    /\ \E p \in Procs : child[p] = "zombie" /\ status[p] = EXIT_OK /\ process = p
    /\ \E t \in Timers : pc[t] = "done"

\* C11: after a manual interrupt the driver is SHUTTING_DOWN and the main
\* thread runs runner.terminate(), observer.stop(), observer.join() in that
\* order and the program exits with 0: the main thread is in one of those
\* steps or has returned, the watcher is stopped only after terminate() has
\* returned and joined before main() returns, and the exit code is 0.
C11_InterruptShutsDownInOrder ==
    interrupted =>
        /\ phase = "SHUTTING_DOWN"
        /\ pc[Main] \in TerminatePcs \cup {"stop", "join", "returned"}
        /\ pc[Main] \in TerminatePcs \cup {"stop"} => observer = "started"
        /\ pc[Main] = "join" => observer = "stopped"
        /\ pc[Main] = "returned" => observer = "joined"
        /\ exitStatus \in {None, 0}

\* C12: terminate() called with no tracked process is a no-op: the call
\* returns at once (no exception), no child is signalled or reaped, and
\* process, outfp, errfp and the open descriptors are unchanged.
C12_TerminateWithoutProcessIsNoOp ==
    [][ \A th \in Threads :
          (pc[th] = "T_check" /\ process = None /\ pc'[th] # pc[th])
              => /\ pc'[th] = AfterTerminate(th)
                 /\ UNCHANGED << process, outfp, errfp, child, status, openFds >> ]_vars

\* A Timer's restart() has called terminate() after poll() dropped the
\* exited child: terminate() returned and the child was not reaped.
C12_Witness ==
    \E t \in Timers :
        /\ pc[t] = "R_closeOut" /\ process = None
        /\ child[1] = "zombie"
        /\ \A o \in Threads \ {t} : pc[o] \notin RunnerPcs

\* The watch paths of the command line: the -p values, or the directory of
\* the command, an empty one standing for the current directory.
RequestedPaths ==
    { IF PathArgs[i] = "" THEN "." ELSE PathArgs[i] : i \in 1..Len(PathArgs) }

\* C13: if a watch path is not a directory, no child is ever launched, no
\* watch is registered, the watcher is never started, and the program exits
\* with code 1.
C13_BadPathIsFatalBeforeLaunch ==
    (\E path \in RequestedPaths : ~isdir(path)) =>
        /\ \A p \in Procs : child[p] = "unborn"
        /\ process = None
        /\ Scheduled = {} /\ observer = "unstarted"
        /\ exitStatus \in {None, 1}

\* C14: in the step in which a Timer fires (its wait is over, it was not
\* cancelled, and its callback starts restart()), every qualifying event so
\* far, the most recent one included, is at least wait old.
C14_FiresOnlyAfterQuietWait ==
    [][ \A t \in Timers :
          (pc[t] = "pending" /\ pc'[t] = "T_check")
              => \A u \in Created : now - startedAt[u] >= Wait ]_vars

\* A Timer that replaced a cancelled one a tick later is running restart().
C14_Witness ==
    \E t \in Fired :
        /\ t > 1 /\ startedAt[t] - startedAt[t - 1] = 1
        /\ pc[t - 1] = "cancelled"
        /\ pc[t] \in RestartPcs

\* The Timers that are started, not fired and not cancelled.
Pending == { t \in Timers : pc[t] = "pending" }

\* C15: at most one Timer is pending at any time.
C15_AtMostOnePending == Cardinality(Pending) <= 1

\* An event arrived while the previous event's Timer was pending: that one
\* is cancelled and the new one is the only pending Timer.
C15_Witness ==
    /\ timer = 2 /\ Pending = {2}
    /\ pc[1] = "cancelled" /\ firedAt[1] = None

\* C16 as stated: on_any_event applies cancel() only to a Timer whose
\* callback has not started.
C16_CancelOnlyBeforeFire ==
    [][ \A e \in Events :
          (WatcherEvent(e) /\ Dispatches(e) /\ CallsCancel)
              => firedAt[timer] = None ]_vars

\* C16 amended: on_any_event never stops a Timer whose callback has
\* started: it calls cancel() on it while the callback runs (is_alive() is
\* still true), and the call leaves that Timer's restart() where it is.
C16_CancelLeavesFiredTimerAlone ==
    [][ \A e \in Events :
          WatcherEvent(e) => \A t \in Fired : pc'[t] = pc[t] ]_vars

\* The second event arrived while the first Timer's callback was running,
\* and that callback is still running.
C16_Witness ==
    /\ firedAt[1] # None /\ startedAt[2] # None
    /\ firedAt[1] <= startedAt[2]
    /\ pc[1] \in RunnerPcs

\* C17: in terminate() the OSError raised by signalling a process that is
\* already dead and reaped is swallowed (the call goes on to
\* "self.process = None"), and whenever terminate() returns, on the normal
\* and on the error path, process is None.
C17_TerminateSwallowsAndClears ==
    [][ \A th \in Threads :
          /\ ( /\ pc[th] = "T_term" /\ pc'[th] # pc[th]
               /\ process # None /\ child[process] = "reaped" )
                 => pc'[th] = "T_clear"
          /\ ( /\ pc[th] \in TerminatePcs \ {"T_check"}
               /\ pc'[th] = AfterTerminate(th) )
                 => process' = None ]_vars

\* The child exited by itself and poll() reaped it; the driver left the
\* loop, and its terminate() of the dead child has returned.
C17_Witness ==
    /\ ~interrupted /\ pc[Main] = "stop" /\ process = None
    /\ child[1] = "reaped" /\ status[1] = EXIT_OK
    /\ \A t \in Timers : pc[t] = "unborn"

\* The driver's call of poll() advances and is not cut off by an interrupt.
PollStep(label) ==
    pc[Main] = label /\ pc'[Main] # pc[Main] /\ ~interrupted'

\* C18: poll() returns the exit code when the tracked process has exited
\* (the driver then leaves the loop) and None when it is still running or
\* no process is tracked (the driver sleeps again); when probing raises
\* OSError, process becomes None and poll() returns None, and so does every
\* poll() that finds process None, until a restart() sets process again.
C18_PollResults ==
    [][ /\ (PollStep("P_ret") /\ process # None /\ exitedAtTick = process)
              => /\ returncode(process) = status[process]
                 /\ status[process] # None
                 /\ pc'[Main] = "T_check"
        /\ (PollStep("P_ret") /\ process # None /\ child[process] = "running")
              => returncode(process) = None /\ pc'[Main] = "sleep"
        /\ (PollStep("P_check") /\ process = None)
              => pc'[Main] = "sleep" /\ process' = None
        /\ (PollStep("P_poll") /\ pc'[Main] = "sleep")
              => process' = None
        /\ (process = None /\ process' # None)
              => \E th \in Threads : pc[th] = "R_popen" /\ pc'[th] = AfterRestart(th)
      ]_vars

\* After the exited child was dropped by the OSError path (it was never
\* reaped and no restart has run), a later poll() is under way.
C18_Witness ==
    /\ pc[Main] = "P_check" /\ process = None /\ phase = "RUNNING"
    /\ child[1] = "zombie"
    /\ \A p \in Procs : p > 1 => child[p] = "unborn"
    /\ \A t \in Timers : pc[t] = "unborn"

\* C19: once the shutdown call runner.terminate() of the main thread has
\* returned, no child is alive: none is started again, and none is alive
\* when the program exits.
C19_NoChildAfterShutdown ==
    (phase = "SHUTTING_DOWN" /\ pc[Main] \in {"stop", "join", "returned"})
        => Alive = {}

\* C20: a step of the driver's poll() never raises, whatever the Timer
\* threads do to the Runner in between: poll() goes on or returns, and the
\* driver sleeps again or leaves the loop with an exit code.
C20_PollNeverFails ==
    [][ (pc[Main] \in PollPcs /\ pc'[Main] # pc[Main] /\ ~interrupted')
            => pc'[Main] \in PollPcs \cup {"sleep", "T_check"} ]_vars

====
